---- MODULE Spec2Model ----
(***************************************************************************)
(* parasailors: pairwise sequence alignment under affine gap penalties.    *)
(*                                                                         *)
(* src/src/matrix.rs builds the substitution matrix, src/src/align.rs      *)
(* holds the alignment entry points.  Each entry point hands its inputs to *)
(* the alignment engine, reads the finished result object and returns a    *)
(* score, an AlignmentStats or a TracebackResults value.  The dynamic-     *)
(* programming engine and the Profile type are not part of the two source  *)
(* files; they are modelled here from the design document (section 4.3),   *)
(* with the boundary policies and the gap-cost convention fixed by the     *)
(* examples and tests that the source files contain.                       *)
(***************************************************************************)
EXTENDS Integers, Sequences, FiniteSets, TLC

VARIABLES
    query,            \* the query sequence of the session
    reference,        \* the reference (database) sequence of the session
    open_cost,        \* gap-open cost of the session
    gap_extend_cost,  \* gap-extend cost of the session
    matrix_type,      \* the MatrixType the caller asks for
    internal_rep,     \* Matrix.internal_rep: "null" before Matrix::new, then
                      \* "created", "lookup" or a null pointer, then "freed"
                      \* or "dropped" once the matrix is out of scope
    frees,            \* calls of parasail_matrix_free on the matrix's storage
    threads,          \* the callers that run entry points side by side: each
                      \* one's position in its call and its local variables
    heap,             \* the engine's heap: the object at each address
    profile,          \* NoProfile, or the Profile built from (query, matrix)
    call,             \* the entry point that returned last ("none" before any)
    ret               \* the value it returned

vars == <<query, reference, open_cost, gap_extend_cost, matrix_type,
          internal_rep, frees, threads, heap, profile, call, ret>>

Null == "null"

(***************************************************************************)
(* Bounds of the model.                                                    *)
(***************************************************************************)
MaxLen == 2
MaxGap == 2
MaxThreads == 2
\* the bits a C int (the score field of the engine's result) has in the
\* model; the wrapper's i64 has twice as many
CIntBits == 8

(***************************************************************************)
(* Small helpers.                                                          *)
(***************************************************************************)
RECURSIVE Rep(_, _)
Rep(c, k) == IF k <= 0 THEN <<>> ELSE <<c>> \o Rep(c, k - 1)

RECURSIVE SeqsUpTo(_, _)
SeqsUpTo(S, k) ==
    IF k = 0 THEN {<<>>}
    ELSE LET shorter == SeqsUpTo(S, k - 1)
         IN  shorter \cup {Append(s, c) : s \in {t \in shorter : Len(t) = k - 1}, c \in S}

Slice(s, from, to) == SubSeq(s, from + 1, to)

StripGaps(s) == SelectSeq(s, LAMBDA c : c # "-")

(***************************************************************************)
(* Substitution matrix (matrix.rs).                                        *)
(***************************************************************************)
ParametricTypes == {"Identity", "IdentityWithPenalty"}

\* the variants of MatrixType that name a matrix of the engine's catalogue
NamedTypes ==
    {"Blosum100", "Blosum30", "Blosum35", "Blosum40", "Blosum45",
     "Blosum50", "Blosum55", "Blosum60", "Blosum62", "Blosum65",
     "Blosum70", "Blosum75", "Blosum80", "Blosum85", "Blosum90", "Pam10",
     "Pam100", "Pam110", "Pam120", "Pam130", "Pam140", "Pam150", "Pam160",
     "Pam170", "Pam180", "Pam190", "Pam20", "Pam200", "Pam210", "Pam220",
     "Pam230", "Pam240", "Pam250", "Pam260", "Pam270", "Pam280", "Pam290",
     "Pam30", "Pam300", "Pam310", "Pam320", "Pam330", "Pam340", "Pam350",
     "Pam360", "Pam370", "Pam380", "Pam390", "Pam40", "Pam400", "Pam410",
     "Pam420", "Pam430", "Pam440", "Pam450", "Pam460", "Pam470", "Pam480",
     "Pam490", "Pam50", "Pam500", "Pam60", "Pam70", "Pam80", "Pam90"}

MatrixTypes == ParametricTypes \cup NamedTypes

\* variant: the name table of Matrix::new with the entry of Blosum62 missing
lookup_name_fallback(mt) == IF mt = "Blosum62" THEN "" ELSE "pam250"

\* the name Matrix::new looks a variant up under
lookup_name(mt) ==
    CASE
         mt = "Blosum100" -> "blosum100"
      [] mt = "Blosum30" -> "blosum30"
      [] mt = "Blosum35" -> "blosum35"
      [] mt = "Blosum40" -> "blosum40"
      [] mt = "Blosum45" -> "blosum45"
      [] mt = "Blosum50" -> "blosum50"
      [] mt = "Blosum55" -> "blosum55"
      [] mt = "Blosum60" -> "blosum60"
      [] mt = "Blosum62" -> "blosum62"
      [] mt = "Blosum65" -> "blosum65"
      [] mt = "Blosum70" -> "blosum70"
      [] mt = "Blosum75" -> "blosum75"
      [] mt = "Blosum80" -> "blosum80"
      [] mt = "Blosum85" -> "blosum85"
      [] mt = "Blosum90" -> "blosum90"
      [] mt = "Pam10" -> "pam10"
      [] mt = "Pam100" -> "pam100"
      [] mt = "Pam110" -> "pam110"
      [] mt = "Pam120" -> "pam120"
      [] mt = "Pam130" -> "pam130"
      [] mt = "Pam140" -> "pam140"
      [] mt = "Pam150" -> "pam150"
      [] mt = "Pam160" -> "pam160"
      [] mt = "Pam170" -> "pam170"
      [] mt = "Pam180" -> "pam180"
      [] mt = "Pam190" -> "pam190"
      [] mt = "Pam20" -> "pam20"
      [] mt = "Pam200" -> "pam200"
      [] mt = "Pam210" -> "pam210"
      [] mt = "Pam220" -> "pam220"
      [] mt = "Pam230" -> "pam230"
      [] mt = "Pam240" -> "pam240"
      [] mt = "Pam250" -> "pam250"
      [] mt = "Pam260" -> "pam260"
      [] mt = "Pam270" -> "pam270"
      [] mt = "Pam280" -> "pam280"
      [] mt = "Pam290" -> "pam290"
      [] mt = "Pam30" -> "pam30"
      [] mt = "Pam300" -> "pam300"
      [] mt = "Pam310" -> "pam310"
      [] mt = "Pam320" -> "pam320"
      [] mt = "Pam330" -> "pam330"
      [] mt = "Pam340" -> "pam340"
      [] mt = "Pam350" -> "pam350"
      [] mt = "Pam360" -> "pam360"
      [] mt = "Pam370" -> "pam370"
      [] mt = "Pam380" -> "pam380"
      [] mt = "Pam390" -> "pam390"
      [] mt = "Pam40" -> "pam40"
      [] mt = "Pam400" -> "pam400"
      [] mt = "Pam410" -> "pam410"
      [] mt = "Pam420" -> "pam420"
      [] mt = "Pam430" -> "pam430"
      [] mt = "Pam440" -> "pam440"
      [] mt = "Pam450" -> "pam450"
      [] mt = "Pam460" -> "pam460"
      [] mt = "Pam470" -> "pam470"
      [] mt = "Pam480" -> "pam480"
      [] mt = "Pam490" -> "pam490"
      [] mt = "Pam50" -> "pam50"
      [] mt = "Pam500" -> "pam500"
      [] mt = "Pam60" -> "pam60"
      [] mt = "Pam70" -> "pam70"
      [] mt = "Pam80" -> "pam80"
      [] mt = "Pam90" -> "pam90"
      [] OTHER -> ""

\* the engine's catalogue of static matrices: BLOSUM30-100 and PAM10-500
Catalogue ==
    {"blosum30", "blosum35", "blosum40", "blosum45", "blosum50",
     "blosum55", "blosum60", "blosum62", "blosum65", "blosum70",
     "blosum75", "blosum80", "blosum85", "blosum90", "blosum100", "pam10",
     "pam20", "pam30", "pam40", "pam50", "pam60", "pam70", "pam80",
     "pam90", "pam100", "pam110", "pam120", "pam130", "pam140", "pam150",
     "pam160", "pam170", "pam180", "pam190", "pam200", "pam210", "pam220",
     "pam230", "pam240", "pam250", "pam260", "pam270", "pam280", "pam290",
     "pam300", "pam310", "pam320", "pam330", "pam340", "pam350", "pam360",
     "pam370", "pam380", "pam390", "pam400", "pam410", "pam420", "pam430",
     "pam440", "pam450", "pam460", "pam470", "pam480", "pam490", "pam500"}

NullPointer == "null pointer"

\* a static table of the catalogue, or a null pointer for any other name
parasail_matrix_lookup(name) == IF name \in Catalogue THEN "lookup" ELSE NullPointer

\* variants of the parametric scores: a match worth two, a mismatch worth nothing
match_score_doubled(mt) == 2

mismatch_score_free(mt) == 0

match_score(mt) == 1

mismatch_score(mt) == IF mt = "Identity" THEN 0 ELSE -1

\* The three entries of BLOSUM62 that the model's alphabet uses off the
\* diagonal, and its diagonal.
\* the alphabet the two created matrices are built over
IdentityAlphabet ==
    {"A", "R", "N", "D", "C", "Q", "E", "G", "H", "I", "L", "K", "M", "F", "P",
     "S", "T", "W", "Y", "V", "B", "Z", "X"}

\* bytes that are no symbol of any alphabet: a zero byte and a byte that is
\* no ASCII character
NulByte == "0x00"

HighByte == "0xFF"

Blosum62(a, b) ==
    IF a \notin IdentityAlphabet \/ b \notin IdentityAlphabet
    THEN (IF a \notin IdentityAlphabet /\ b \notin IdentityAlphabet THEN 1 ELSE -4)
    ELSE IF a = b THEN (IF a = "C" THEN 9 ELSE 4)
    ELSE IF {a, b} = {"A", "S"} THEN 1
    ELSE IF {a, b} = {"C", "S"} THEN -1
    ELSE 0

\* score(symbol_a, symbol_b) of a constructed matrix
matrix_score(mt, a, b) ==
    IF mt \in ParametricTypes
    THEN (IF a \notin IdentityAlphabet \/ b \notin IdentityAlphabet THEN 0
          ELSE IF a = b THEN match_score(mt) ELSE mismatch_score(mt))
    ELSE Blosum62(a, b)

(***************************************************************************)
(* Alignment engine: the three-track affine-gap recurrence of the design   *)
(* document.  M ends with a substitution, X with a gap in the reference    *)
(* (a query symbol against '-'), Y with a gap in the query.  A track value *)
(* carries its score, the exact matches and positive substitutions along   *)
(* its path, and the path itself as a sequence of columns "D", "X", "Y".   *)
(***************************************************************************)
NegInf == -1000000

Track(s, nm, np, ops) == [s |-> s, nm |-> nm, np |-> np, ops |-> ops]

NoTrack == Track(NegInf, 0, 0, <<>>)

StartTrack == Track(0, 0, 0, <<>>)

\* Boundary policy of a mode: q_free frees unaligned leading and trailing
\* query symbols (column 0 is zero, the answer may lie anywhere in the last
\* column), r_free does the same for the reference (row 0, last row), local
\* floors every cell at zero and takes the maximum over the whole grid.
Policy(q_free, r_free, local) == [q_free |-> q_free, r_free |-> r_free, local |-> local]

NW == Policy(FALSE, FALSE, FALSE)

SGBothFree == Policy(TRUE, TRUE, FALSE)

SG == SGBothFree

SG_QX == Policy(TRUE, FALSE, FALSE)

SG_DX == Policy(FALSE, TRUE, FALSE)

SW == Policy(TRUE, TRUE, TRUE)

\* a gap run of k symbols costs open + (k-1)*extend
GapRunCost(open, ext, k) == open + (k - 1) * ext

\* cell_best: the best of the three tracks, a substitution preferred on ties
CellBest(c, pol) ==
    LET b == IF c.M.s >= c.X.s /\ c.M.s >= c.Y.s THEN c.M
             ELSE IF c.X.s >= c.Y.s THEN c.X ELSE c.Y
    IN  IF pol.local /\ b.s <= 0 THEN StartTrack ELSE b

OpenGap(t, open, op) == Track(t.s - open, t.nm, t.np, Append(t.ops, op))

ExtendGap(t, ext, op) == Track(t.s - ext, t.nm, t.np, Append(t.ops, op))

GapTrack(m, g, open, ext, op) ==
    IF m.s - open >= g.s - ext THEN OpenGap(m, open, op) ELSE ExtendGap(g, ext, op)

\* cell (0, 0), cells (i, 0) of column 0 and cells (0, j) of row 0
CornerCell == [M |-> StartTrack, X |-> NoTrack, Y |-> NoTrack]

ColumnZeroCell(i, open, ext, pol) ==
    IF pol.q_free
    THEN CornerCell
    ELSE [M |-> NoTrack,
          X |-> Track(0 - GapRunCost(open, ext, i), 0, 0, Rep("X", i)),
          Y |-> NoTrack]

RowZeroCell(j, open, ext, pol) ==
    IF pol.r_free
    THEN CornerCell
    ELSE [M |-> NoTrack,
          X |-> NoTrack,
          Y |-> Track(0 - GapRunCost(open, ext, j), 0, 0, Rep("Y", j))]

\* an inner cell from its diagonal, upper and left neighbours:
\*   M[i][j] = max(M, X, Y)[i-1][j-1] + score(query[i], ref[j])
\*   X[i][j] = max(M[i-1][j] - open, X[i-1][j] - extend)
\*   Y[i][j] = max(M[i][j-1] - open, Y[i][j-1] - extend)
InnerCell(qc, rc, diag, up, left, open, ext, mt, pol) ==
    LET d  == CellBest(diag, pol)
        sc == matrix_score(mt, qc, rc)
    IN  [M |-> Track(d.s + sc,
                     d.nm + (IF qc = rc THEN 1 ELSE 0),
                     d.np + (IF sc > 0 THEN 1 ELSE 0),
                     Append(d.ops, "D")),
         X |-> GapTrack(up.M, up.X, open, ext, "X"),
         Y |-> GapTrack(left.M, left.Y, open, ext, "Y")]

\* The sequence <<first, e1, .., en>> in which ek = Next(<<first, .., e(k-1)>>, k).
\* The elements are produced in order, eight to a block, so that the
\* evaluation of a long sequence nests no deeper than that of a short one.
Unfold(Step(_, _), first, n) ==
    LET RECURSIVE Blocks(_)
        Blocks(b) ==
            IF b = 0 THEN <<first>>
            ELSE LET done == Blocks(b - 1)
                     from == Len(done) - 1
                     RECURSIVE Upto(_)
                     Upto(k) ==
                         IF k <= from THEN done
                         ELSE LET acc == Upto(k - 1)
                              IN  Append(acc, Step(acc, k))
                 IN  Upto(IF b * 8 < n THEN b * 8 ELSE n)
    IN  Blocks((n + 7) \div 8)

\* a row is the sequence of its cells, cell (i, j) at index j + 1
RowZero(m, open, ext, pol) ==
    <<CornerCell>> \o [j \in 1..m |-> RowZeroCell(j, open, ext, pol)]

\* row i of the grid from the row above it, filled left to right
FillRow(i, prev, q, r, open, ext, mt, pol) ==
    LET Cell(acc, j) == InnerCell(q[i], r[j], prev[j], prev[j + 1], acc[j],
                                  open, ext, mt, pol)
    IN  Unfold(Cell, ColumnZeroCell(i, open, ext, pol), Len(r))

\* the grid is the sequence of its rows, row i at index i + 1, filled top down
Grid(q, r, open, ext, mt, pol) ==
    LET Row(rows, i) == FillRow(i, rows[i], q, r, open, ext, mt, pol)
    IN  Unfold(Row, RowZero(Len(r), open, ext, pol), Len(q))

\* The scan for the optimal cell visits the candidates in order and a later
\* candidate wins only when strictly better: the optimal cell is the first
\* candidate that attains the maximum.  A candidate is <<i, j>> with
\* 1 <= i <= n and 1 <= j <= m.
LastRow(n, m) == [j \in 1..m |-> <<n, j>>]

LastColumn(n, m) == [i \in 1..n |-> <<i, m>>]

\* column after column over the whole grid
AllCells(n, m) == [k \in 1..(n * m) |-> <<((k - 1) % n) + 1, ((k - 1) \div n) + 1>>]

Candidates(n, m, pol) ==
    IF pol.local THEN AllCells(n, m)
    ELSE IF pol.r_free /\ pol.q_free THEN LastRow(n, m) \o LastColumn(n, m)
    ELSE IF pol.r_free THEN LastRow(n, m)
    ELSE IF pol.q_free THEN LastColumn(n, m)
    ELSE << <<n, m>> >>

ScoreAt(g, c, pol) == CellBest(g[c[1] + 1][c[2] + 1], pol).s

MaxOf(S) == CHOOSE x \in S : \A y \in S : y <= x

OptimalCell(g, cands, pol) ==
    LET N     == Len(cands)
        mx    == MaxOf({ScoreAt(g, cands[k], pol) : k \in 1..N})
        first == CHOOSE k \in 1..N :
                     /\ ScoreAt(g, cands[k], pol) = mx
                     /\ \A l \in 1..(k - 1) : ScoreAt(g, cands[l], pol) # mx
        c     == cands[first]
    IN  [t |-> CellBest(g[c[1] + 1][c[2] + 1], pol), i |-> c[1], j |-> c[2]]

\* the optimal alignment in exact arithmetic: score, statistics, 0-based
\* end coordinates and the path that the traceback replays
OptimalAlignment(q, r, open, ext, mt, pol) ==
    LET g    == Grid(q, r, open, ext, mt, pol)
        cand == Candidates(Len(g) - 1, Len(g[1]) - 1, pol)
        best == OptimalCell(g, cand, pol)
    IN  [score     |-> best.t.s,
         matches   |-> best.t.nm,
         similar   |-> best.t.np,
         length    |-> Len(best.t.ops),
         end_query |-> best.i - 1,
         end_ref   |-> best.j - 1,
         trace     |-> best.t.ops]

\* a value as a C int holds it
CInt(x) == ((x + 2^(CIntBits - 1)) % 2^CIntBits) - 2^(CIntBits - 1)

\* the engine's result object: its score field is a C int
EngineResult(q, r, open, ext, mt, pol) ==
    [OptimalAlignment(q, r, open, ext, mt, pol) EXCEPT !.score = CInt(@)]

(***************************************************************************)
(* Result extractors of the engine.                                        *)
(***************************************************************************)
parasail_result_get_score(result) == result.score

parasail_result_get_matches(result) == result.matches

parasail_result_get_similar(result) == result.similar

parasail_result_get_length(result) == result.length

\* the number of the first c columns of a path that consume a symbol of the
\* sequence whose gap column is `gap`
Consumed(ops, c, gap) == Cardinality({k \in 1..c : ops[k] # gap})

\* The three rows of the traceback: the path is replayed from the start of
\* the alignment to the optimal cell.  A column "X" holds a query symbol
\* against '-', a column "Y" holds '-' against a reference symbol.
parasail_result_get_traceback(result, q, r, mt, match_char, pos_char, neg_char) ==
    LET ops    == result.trace
        L      == Len(ops)
        qstart == result.end_query + 1 - Consumed(ops, L, "Y")
        rstart == result.end_ref + 1 - Consumed(ops, L, "X")
        qsym(c) == q[qstart + Consumed(ops, c, "Y")]
        rsym(c) == r[rstart + Consumed(ops, c, "X")]
        glyph(a, b) == IF a = b THEN match_char
                       ELSE IF matrix_score(mt, a, b) > 0 THEN pos_char
                       ELSE neg_char
    IN  [query |-> <<>> \o [c \in 1..L |-> IF ops[c] = "Y" THEN "-" ELSE qsym(c)],
         comp  |-> <<>> \o [c \in 1..L |-> IF ops[c] = "D" THEN glyph(qsym(c), rsym(c)) ELSE " "],
         ref_  |-> <<>> \o [c \in 1..L |-> IF ops[c] = "X" THEN "-" ELSE rsym(c)]]

(***************************************************************************)
(* Profile: a query bound to the matrix it was built with.                 *)
(***************************************************************************)
ProfileNew(q, mt) == [query |-> q, matrix_type |-> mt]

NoProfile == [query |-> <<>>, matrix_type |-> Null]

parasail_profile(p, db, open, ext, pol) ==
    EngineResult(p.query, db, open, ext, p.matrix_type, pol)

(***************************************************************************)
(* Entry points of align.rs: the value each returns.                       *)
(***************************************************************************)
\* variant: the global entry point bound to the routine that frees the ends
\* of the query
global_alignment_score_qx(p, db, open, ext) ==
    parasail_profile(p, db, open, ext, SG_QX).score

global_alignment_score(p, db, open, ext) ==
    parasail_profile(p, db, open, ext, NW).score

\* variant: the semi-global entry point bound to the engine's routine that
\* frees the ends of the reference only
semi_global_alignment_score_dx(p, db, open, ext) ==
    parasail_profile(p, db, open, ext, SG_DX).score

semi_global_alignment_score(p, db, open, ext) ==
    parasail_profile(p, db, open, ext, SG).score

semi_global_qx_alignment_score(p, db, open, ext) ==
    parasail_profile(p, db, open, ext, SG_QX).score

\* variant: the local entry point bound to the engine's global routine
local_alignment_score_nw(p, db, open, ext) ==
    parasail_profile(p, db, open, ext, NW).score

local_alignment_score(p, db, open, ext) ==
    parasail_profile(p, db, open, ext, SW).score

local_alignment_score_no_profile(q, db, open, ext, mt) ==
    EngineResult(q, db, open, ext, mt, SW).score

\* variant: the engine's 0-based coordinate handed on unchanged
EndAsReported(e) == e

\* the engine reports 0-based end coordinates; the entry points add one
EndPlusOne(e) == e + 1

\* variant: the match count and the length handed on in each other's place
AlignmentStatsSwapped(result) ==
    [score             |-> parasail_result_get_score(result),
     num_matches       |-> parasail_result_get_length(result),
     num_positive_subs |-> parasail_result_get_similar(result),
     align_length      |-> parasail_result_get_matches(result),
     query_end         |-> EndPlusOne(result.end_query),
     ref_end           |-> EndPlusOne(result.end_ref)]

AlignmentStats(result) ==
    [score             |-> parasail_result_get_score(result),
     num_matches       |-> parasail_result_get_matches(result),
     num_positive_subs |-> parasail_result_get_similar(result),
     align_length      |-> parasail_result_get_length(result),
     query_end         |-> EndPlusOne(result.end_query),
     ref_end           |-> EndPlusOne(result.end_ref)]

\* variant: the stats entry point bound to the routine that frees the ends
\* of the query only
semi_global_alignment_stats_qx(q, db, open, ext, mt) ==
    AlignmentStats(EngineResult(q, db, open, ext, mt, SG_QX))

semi_global_alignment_stats(q, db, open, ext, mt) ==
    AlignmentStats(EngineResult(q, db, open, ext, mt, SG))

semi_global_qx_alignment_stats(q, db, open, ext, mt) ==
    AlignmentStats(EngineResult(q, db, open, ext, mt, SG_QX))

local_alignment_stats(q, db, open, ext, mt) ==
    AlignmentStats(EngineResult(q, db, open, ext, mt, SW))

\* variant: a glyph that is none of the three handed to the engine
OtherGlyph == "."

match_char == "|"

positive_mismatch_char == "|"

negative_mismatch_char == ":"

TracebackResults(result, q, db, mt) ==
    LET traceback == parasail_result_get_traceback(result, q, db, mt, match_char,
                         positive_mismatch_char, negative_mismatch_char)
    IN  [score       |-> parasail_result_get_score(result),
         query_end   |-> EndPlusOne(result.end_query),
         ref_end     |-> EndPlusOne(result.end_ref),
         query_trace |-> traceback.query,
         comp_trace  |-> traceback.comp,
         ref_trace   |-> traceback.ref_]

semi_global_dx_traceback(q, db, open, ext, mt) ==
    TracebackResults(EngineResult(q, db, open, ext, mt, SG_DX), q, db, mt)

semi_global_traceback(q, db, open, ext, mt) ==
    TracebackResults(EngineResult(q, db, open, ext, mt, SG), q, db, mt)

(***************************************************************************)
(* Inputs of a session.                                                    *)
(***************************************************************************)
Nucleotides == {"A", "C"}

Residues == {"A", "C", "S"}

GapCosts == 0..MaxGap

\* the sequences of the documentation examples and of test_semiglobal_stats
DocQuery50 == Rep("A", 10) \o Rep("C", 10) \o Rep("G", 10) \o Rep("T", 11) \o Rep("N", 9)

DocReference52 ==
    Rep("A", 10) \o Rep("C", 10) \o Rep("G", 10) \o Rep("T", 5) \o Rep("C", 2)
        \o Rep("T", 6) \o Rep("N", 9)

DocReference35 == Rep("A", 10) \o Rep("C", 10) \o Rep("G", 10) \o Rep("T", 5)

DocQuery17 == Rep("A", 4) \o Rep("C", 10) \o Rep("G", 3)

TestQuery6 == <<"C", "C", "G", "G", "C", "A">>

TestReference11 == <<"A", "C", "C", "G", "T", "T", "G", "A", "C", "G", "C">>

TestQuery9 == <<"A", "C", "C", "G", "T", "G", "G", "A", "T">>

TestReference13 == <<"A", "A", "A", "A", "A", "C", "C", "G", "T", "T", "G", "A", "T">>

Input(q, r, open, ext, mt) ==
    [query |-> q, reference |-> r, open_cost |-> open, gap_extend_cost |-> ext,
     matrix_type |-> mt]

DocInputs ==
    { Input(DocQuery50, DocQuery50, 1, 1, "Identity"),
      Input(DocQuery50, DocReference52, 1, 1, "Identity"),
      Input(DocQuery50, DocReference35, 1, 1, "Identity"),
      Input(DocQuery17, DocQuery50, 1, 1, "Identity"),
      Input(TestQuery6, TestReference11, 5, 1, "IdentityWithPenalty"),
      Input(TestQuery9, TestReference13, 5, 1, "IdentityWithPenalty") }

ParametricInputs ==
    LET seqs == SeqsUpTo(Nucleotides, MaxLen) \ {<<>>}
    IN  { Input(q, r, o, e, mt) :
              q \in seqs, r \in seqs, o \in GapCosts, e \in GapCosts,
              mt \in ParametricTypes }

NamedInputs ==
    LET seqs == SeqsUpTo(Residues, MaxLen) \ {<<>>}
    IN  { Input(q, r, MaxGap, MaxGap, "Blosum62") : q \in seqs, r \in seqs }

Inputs == ParametricInputs \cup NamedInputs \cup DocInputs

(***************************************************************************)
(* The session: a caller builds the matrix, optionally a profile of the    *)
(* query, calls one entry point and lets the matrix go out of scope.       *)
(***************************************************************************)
Threads == 1..MaxThreads

\* a caller that has not called anything
IdleThread ==
    [pc |-> "idle", entry |-> "none", reference |-> <<>>, result |-> 0,
     traceback |-> 0, locals |-> Null, value |-> Null]

NoCalls == [t \in Threads |-> IdleThread]

\* room for the result object and the traceback object of every caller
Addresses == 1..(2 * MaxThreads)

Unallocated ==
    [kind |-> "none", owner |-> 0, content |-> Null, frees |-> 0,
     freed_by |-> {}, readers |-> {}, stale_reads |-> 0]

EmptyHeap == [a \in Addresses |-> Unallocated]

\* the caller is inside an entry point, borrowing the Matrix or the Profile
InCall(th) == th.pc \notin {"idle", "returned", "panicked"}

Init ==
    /\ \E in \in Inputs :
          /\ query = in.query
          /\ reference = in.reference
          /\ open_cost = in.open_cost
          /\ gap_extend_cost = in.gap_extend_cost
          /\ matrix_type = in.matrix_type
    /\ internal_rep = Null
    /\ frees = 0
    /\ threads = NoCalls
    /\ heap = EmptyHeap
    /\ profile = NoProfile
    /\ call = "none"
    /\ ret = Null

\* Matrix::new: the two parametric matrices are created (and owned) by the
\* wrapper, a named matrix is looked up in the engine's static tables
MatrixNew ==
    /\ internal_rep = Null
    /\ call = "none"
    /\ internal_rep' = IF matrix_type \in ParametricTypes
                          THEN "created"
                          ELSE parasail_matrix_lookup(lookup_name(matrix_type))
    /\ UNCHANGED <<query, reference, open_cost, gap_extend_cost, matrix_type,
                   frees, threads, heap, profile, call, ret>>

\* variant: a drop that frees whatever the matrix holds
drop_frees_always(mt) == 1

\* Drop for Matrix: the calls of parasail_matrix_free it makes, one if-let
\* block for each of the two created kinds and none for a named matrix
drop_frees(mt) ==
    (IF mt = "Identity" THEN 1 ELSE 0) + (IF mt = "IdentityWithPenalty" THEN 1 ELSE 0)

\* Drop for Matrix: runs once, when the owner of the Matrix lets it go
MatrixDrop ==
    /\ internal_rep \in {"created", "lookup", NullPointer}
    /\ \A t \in Threads : ~InCall(threads[t])
    /\ frees' = frees + drop_frees(matrix_type)
    /\ internal_rep' = IF frees' > frees THEN "freed" ELSE "dropped"
    /\ UNCHANGED <<query, reference, open_cost, gap_extend_cost, matrix_type,
                   threads, heap, profile, call, ret>>

MatrixLive == internal_rep \in {"created", "lookup"}

NewProfile ==
    /\ MatrixLive
    /\ profile = NoProfile
    /\ call = "none"
    /\ profile' = ProfileNew(query, matrix_type)
    /\ UNCHANGED <<query, reference, open_cost, gap_extend_cost, matrix_type,
                   internal_rep, frees, threads, heap, call, ret>>

Return(name, value) ==
    /\ call' = name
    /\ ret' = value
    /\ UNCHANGED <<query, reference, open_cost, gap_extend_cost, matrix_type,
                   internal_rep, frees, threads, heap, profile>>

WithProfile == MatrixLive /\ profile # NoProfile /\ call = "none"

WithMatrix == MatrixLive /\ call = "none"

CallGlobalAlignmentScore ==
    /\ WithProfile
    /\ Return("global_alignment_score",
              global_alignment_score(profile, reference, open_cost, gap_extend_cost))

CallSemiGlobalAlignmentScore ==
    /\ WithProfile
    /\ Return("semi_global_alignment_score",
              semi_global_alignment_score(profile, reference, open_cost, gap_extend_cost))

CallSemiGlobalQxAlignmentScore ==
    /\ WithProfile
    /\ Return("semi_global_qx_alignment_score",
              semi_global_qx_alignment_score(profile, reference, open_cost, gap_extend_cost))

CallLocalAlignmentScore ==
    /\ WithProfile
    /\ Return("local_alignment_score",
              local_alignment_score(profile, reference, open_cost, gap_extend_cost))

CallLocalAlignmentScoreNoProfile ==
    /\ WithMatrix
    /\ Return("local_alignment_score_no_profile",
              local_alignment_score_no_profile(query, reference, open_cost,
                                               gap_extend_cost, matrix_type))

CallSemiGlobalAlignmentStats ==
    /\ WithMatrix
    /\ Return("semi_global_alignment_stats",
              semi_global_alignment_stats(query, reference, open_cost,
                                          gap_extend_cost, matrix_type))

CallSemiGlobalQxAlignmentStats ==
    /\ WithMatrix
    /\ Return("semi_global_qx_alignment_stats",
              semi_global_qx_alignment_stats(query, reference, open_cost,
                                             gap_extend_cost, matrix_type))

CallLocalAlignmentStats ==
    /\ WithMatrix
    /\ Return("local_alignment_stats",
              local_alignment_stats(query, reference, open_cost,
                                    gap_extend_cost, matrix_type))

CallSemiGlobalDxTraceback ==
    /\ WithMatrix
    /\ Return("semi_global_dx_traceback",
              semi_global_dx_traceback(query, reference, open_cost,
                                       gap_extend_cost, matrix_type))

CallSemiGlobalTraceback ==
    /\ WithMatrix
    /\ Return("semi_global_traceback",
              semi_global_traceback(query, reference, open_cost,
                                    gap_extend_cost, matrix_type))

Next ==
    \/ MatrixNew
    \/ NewProfile
    \/ CallGlobalAlignmentScore
    \/ CallSemiGlobalAlignmentScore
    \/ CallSemiGlobalQxAlignmentScore
    \/ CallLocalAlignmentScore
    \/ CallLocalAlignmentScoreNoProfile
    \/ CallSemiGlobalAlignmentStats
    \/ CallSemiGlobalQxAlignmentStats
    \/ CallLocalAlignmentStats
    \/ CallSemiGlobalDxTraceback
    \/ CallSemiGlobalTraceback
    \/ MatrixDrop

Spec == Init /\ [][Next]_vars

(***************************************************************************)
(* Properties.                                                             *)
(***************************************************************************)
ScoreCalls ==
    {"global_alignment_score", "semi_global_alignment_score",
     "semi_global_qx_alignment_score", "local_alignment_score",
     "local_alignment_score_no_profile"}

StatsCalls ==
    {"semi_global_alignment_stats", "semi_global_qx_alignment_stats",
     "local_alignment_stats"}

TracebackCalls == {"semi_global_dx_traceback", "semi_global_traceback"}

\* C1: a sequence aligned against itself under the Identity matrix, with any
\* gap costs >= 0, scores its length in every mode, and every stats result
\* reports num_matches = align_length = query_end = ref_end = its length.
C1_SelfAlignment ==
    (query = reference /\ matrix_type = "Identity") =>
        /\ call \in ScoreCalls => ret = Len(query)
        /\ call \in StatsCalls =>
              /\ ret.score = Len(query)
              /\ ret.num_matches = Len(query)
              /\ ret.align_length = Len(query)
              /\ ret.query_end = Len(query)
              /\ ret.ref_end = Len(query)

C1_Witness ==
    /\ query = reference
    /\ matrix_type = "Identity"
    /\ Len(query) = MaxLen
    /\ open_cost = 0
    /\ call = "local_alignment_stats"
    /\ ret.align_length = MaxLen

\* C2: on the same inputs the local score is at least the semi-global score,
\* which is at least the global score.
C2_ModeOrdering ==
    call = "semi_global_alignment_score" =>
        /\ local_alignment_score(profile, reference, open_cost, gap_extend_cost) >= ret
        /\ ret >= global_alignment_score(profile, reference, open_cost, gap_extend_cost)

C2_Witness ==
    /\ call = "semi_global_alignment_score"
    /\ local_alignment_score(profile, reference, open_cost, gap_extend_cost) > ret
    /\ ret > global_alignment_score(profile, reference, open_cost, gap_extend_cost)

\* the 0-based offsets at which q occurs in r as a contiguous substring
Occurrences(q, r) ==
    {s \in 0..(Len(r) - Len(q)) : Slice(r, s, s + Len(q)) = q}

\* C3: when the query occurs exactly once in the reference, at 0-based offset
\* s, the Identity matrix with open = extend = 1 makes both
\* semi_global_alignment_stats and local_alignment_stats report score =
\* num_matches = num_positive_subs = align_length = query_end = |query| and
\* ref_end = s + |query|.
C3_UniqueSubstring ==
    ( /\ call \in {"semi_global_alignment_stats", "local_alignment_stats"}
      /\ matrix_type = "Identity"
      /\ open_cost = 1
      /\ gap_extend_cost = 1
      /\ Cardinality(Occurrences(query, reference)) = 1 ) =>
        \A s \in Occurrences(query, reference) :
            ret = [score |-> Len(query), num_matches |-> Len(query),
                   num_positive_subs |-> Len(query), align_length |-> Len(query),
                   query_end |-> Len(query), ref_end |-> s + Len(query)]

C3_Witness ==
    /\ call = "semi_global_alignment_stats"
    /\ query = DocQuery17
    /\ reference = DocQuery50
    /\ Occurrences(query, reference) = {6}
    /\ ret.query_end = 17
    /\ ret.ref_end = 23

SemiGlobalCalls ==
    {"semi_global_alignment_score", "semi_global_alignment_stats",
     "semi_global_traceback"}

ReturnedScore == IF call \in ScoreCalls THEN ret ELSE ret.score

\* The scores of all overlaps of q and r: a stretch of q aligned end to end,
\* every gap charged, with a stretch of r, where the symbols before the two
\* stretches belong to one sequence only, and so do the symbols after them.
OverlapScores(q, r, open, ext, mt) ==
    { EngineResult(Slice(q, a, b), Slice(r, c, d), open, ext, mt, NW).score :
        <<a, b, c, d>> \in
            { w \in (0..Len(q)) \X (1..Len(q)) \X (0..Len(r)) \X (1..Len(r)) :
                /\ w[1] <= w[2]
                /\ w[3] <= w[4]
                /\ w[1] = 0 \/ w[3] = 0
                /\ w[2] = Len(q) \/ w[4] = Len(r) } }

IsProperPrefix(r, q) == Len(r) < Len(q) /\ SubSeq(q, 1, Len(r)) = r

BestOver(g, cells, pol) == MaxOf({ScoreAt(g, cells[k], pol) : k \in 1..Len(cells)})

IsRunInsertion(q, r, k) ==
    /\ k >= 1
    /\ Len(r) = Len(q) + k
    /\ \E p \in 1..(Len(q) - 1) :
          /\ SubSeq(r, 1, p) = SubSeq(q, 1, p)
          /\ SubSeq(r, p + k + 1, Len(r)) = SubSeq(q, p + 1, Len(q))

\* C6: global alignment consumes both sequences and charges a gap run of k
\* symbols open + (k-1)*extend: under Identity, a query against the reference
\* made from it by inserting one internal run of k symbols scores |Q| - k
\* with open = extend = 1, and |Q| - (open + (k-1)*extend) whenever
\* extend <= open.
C6_GlobalRunInsertion ==
    ( /\ call = "global_alignment_score"
      /\ matrix_type = "Identity"
      /\ IsRunInsertion(query, reference, Len(reference) - Len(query)) ) =>
        LET k == Len(reference) - Len(query)
        IN  /\ (open_cost = 1 /\ gap_extend_cost = 1) => ret = Len(query) - k
            /\ gap_extend_cost <= open_cost =>
                  ret = Len(query) - (open_cost + (k - 1) * gap_extend_cost)

C6_Witness ==
    /\ call = "global_alignment_score"
    /\ query = DocQuery50
    /\ reference = DocReference52
    /\ IsRunInsertion(query, reference, 2)
    /\ ret = 48

\* r is q with exactly one symbol replaced by a different one
IsSingleSubstitution(q, r) ==
    /\ Len(r) = Len(q)
    /\ Cardinality({i \in 1..Len(q) : q[i] # r[i]}) = 1

\* the global score of the query against itself, the reference before the
\* substitution
SelfScore == global_alignment_score(profile, query, open_cost, gap_extend_cost)

\* match score minus mismatch score of the two parametric matrices
ScoreDrop(mt) == IF mt = "Identity" THEN 1 ELSE 2

\* C7 (as the code has it): under Identity with any gap costs >= 0, and under
\* IdentityWithPenalty with gap-open >= 1, replacing one symbol of a
\* reference identical to the query lowers the global score by exactly
\* match - mismatch.
C7_SubstitutionWithChargedGaps ==
    ( /\ call = "global_alignment_score"
      /\ matrix_type \in ParametricTypes
      /\ IsSingleSubstitution(query, reference)
      /\ matrix_type = "Identity" \/ open_cost >= 1 ) =>
        ret = SelfScore - ScoreDrop(matrix_type)

C7_Witness ==
    /\ call = "global_alignment_score"
    /\ matrix_type = "IdentityWithPenalty"
    /\ IsSingleSubstitution(query, reference)
    /\ Len(query) = MaxLen
    /\ open_cost = 1
    /\ gap_extend_cost = 0
    /\ ret = MaxLen - 2

\* C7 (as the specification words it): the same for any gap costs >= 0 under
\* both parametric matrices.
C7_SubstitutionAnyGapCosts ==
    ( /\ call = "global_alignment_score"
      /\ matrix_type \in ParametricTypes
      /\ IsSingleSubstitution(query, reference) ) =>
        ret = SelfScore - ScoreDrop(matrix_type)

GapFree(t) == \A c \in 1..Len(t) : t[c] # "-"

\* C9: when the optimal alignment has no gaps, the traceback's query row
\* without '-' is query[query_end - align_length .. query_end] and its
\* reference row without '-' is reference[ref_end - align_length .. ref_end],
\* align_length being the one the stats entry point of the same mode
\* reports; so align_length <= query_end and align_length <= ref_end.
C9_TracebackRoundTrip ==
    ( /\ call = "semi_global_traceback"
      /\ GapFree(ret.query_trace)
      /\ GapFree(ret.ref_trace) ) =>
        LET L == semi_global_alignment_stats(query, reference, open_cost,
                     gap_extend_cost, matrix_type).align_length
        IN  /\ L <= ret.query_end
            /\ L <= ret.ref_end
            /\ StripGaps(ret.query_trace) = Slice(query, ret.query_end - L, ret.query_end)
            /\ StripGaps(ret.ref_trace) = Slice(reference, ret.ref_end - L, ret.ref_end)

C9_Witness ==
    /\ call = "semi_global_traceback"
    /\ query = DocQuery17
    /\ reference = DocQuery50
    /\ GapFree(ret.query_trace)
    /\ GapFree(ret.ref_trace)
    /\ ret.query_trace = DocQuery17
    /\ ret.ref_trace = Slice(reference, 6, 23)

\* C10: the three rows of every traceback have one length; a column of two
\* symbols carries '|' when they are equal, '|' when they differ and score
\* positively, ':' when they score negatively; no column holds '-' in both
\* sequence rows.
C10_TraceRows ==
    call \in TracebackCalls =>
        /\ Len(ret.comp_trace) = Len(ret.query_trace)
        /\ Len(ret.ref_trace) = Len(ret.query_trace)
        /\ \A c \in 1..Len(ret.query_trace) :
              LET a == ret.query_trace[c]
                  b == ret.ref_trace[c]
              IN  /\ ~(a = "-" /\ b = "-")
                  /\ (a # "-" /\ b # "-") =>
                        /\ a = b => ret.comp_trace[c] = "|"
                        /\ (a # b /\ matrix_score(matrix_type, a, b) > 0) =>
                              ret.comp_trace[c] = "|"
                        /\ matrix_score(matrix_type, a, b) < 0 =>
                              ret.comp_trace[c] = ":"

C10_Witness ==
    /\ call \in TracebackCalls
    /\ matrix_type = "Blosum62"
    /\ \E c \in 1..Len(ret.query_trace) :
          /\ ret.query_trace[c] \notin {"-", ret.ref_trace[c]}
          /\ ret.ref_trace[c] # "-"
          /\ matrix_score(matrix_type, ret.query_trace[c], ret.ref_trace[c]) > 0
          /\ ret.comp_trace[c] = "|"
    /\ \E c \in 1..Len(ret.query_trace) :
          /\ ret.query_trace[c] # "-"
          /\ ret.ref_trace[c] # "-"
          /\ matrix_score(matrix_type, ret.query_trace[c], ret.ref_trace[c]) < 0
          /\ ret.comp_trace[c] = ":"

LocalCalls ==
    {"local_alignment_score", "local_alignment_score_no_profile",
     "local_alignment_stats"}

\* The scores of all pairs of non-empty stretches of q and r, each pair
\* aligned end to end with every gap charged.
SegmentScores(q, r, open, ext, mt) ==
    { EngineResult(Slice(q, w[1], w[2]), Slice(r, w[3], w[4]), open, ext, mt, NW).score :
        w \in { v \in (0..Len(q)) \X (1..Len(q)) \X (0..Len(r)) \X (1..Len(r)) :
                  v[1] < v[2] /\ v[3] < v[4] } }

\* sessions that make a local alignment call
NextLocal ==
    \/ MatrixNew
    \/ NewProfile
    \/ CallLocalAlignmentScore
    \/ CallLocalAlignmentScoreNoProfile
    \/ CallLocalAlignmentStats
    \/ MatrixDrop

SpecLocal == Init /\ [][NextLocal]_vars

\* C11: every local score (local_alignment_score,
\* local_alignment_score_no_profile, local_alignment_stats.score) is >= 0 and
\* is the maximum over all grid cells of the zero-floored cell_best value:
\* the best score of a pair of stretches, or 0 when none is positive.
C11_LocalScoreFloored ==
    call \in LocalCalls =>
        LET g == Grid(query, reference, open_cost, gap_extend_cost, matrix_type, SW)
        IN  /\ ReturnedScore >= 0
            /\ ReturnedScore =
                  BestOver(g, AllCells(Len(query), Len(reference)), SW)
            /\ ( /\ call = "local_alignment_stats"
                 /\ Len(query) <= MaxLen
                 /\ Len(reference) <= MaxLen ) =>
                  ReturnedScore = MaxOf({0} \cup SegmentScores(query, reference,
                                      open_cost, gap_extend_cost, matrix_type))

C11_Witness ==
    /\ call = "local_alignment_score"
    /\ matrix_type = "IdentityWithPenalty"
    /\ Len(query) = MaxLen
    /\ ret = 0
    /\ global_alignment_score(profile, reference, open_cost, gap_extend_cost) < 0

(***************************************************************************)
(* Global alignment against an empty reference.                            *)
(***************************************************************************)
EmptyReferenceInputs ==
    { Input(in.query, <<>>, in.open_cost, in.gap_extend_cost, in.matrix_type) :
        in \in Inputs }

InitEmptyReference ==
    /\ \E in \in EmptyReferenceInputs :
          /\ query = in.query
          /\ reference = in.reference
          /\ open_cost = in.open_cost
          /\ gap_extend_cost = in.gap_extend_cost
          /\ matrix_type = in.matrix_type
    /\ internal_rep = Null
    /\ frees = 0
    /\ threads = NoCalls
    /\ heap = EmptyHeap
    /\ profile = NoProfile
    /\ call = "none"
    /\ ret = Null

NextEmptyReference ==
    \/ MatrixNew
    \/ NewProfile
    \/ CallGlobalAlignmentScore
    \/ MatrixDrop

SpecEmptyReference == InitEmptyReference /\ [][NextEmptyReference]_vars

\* C12: global_alignment_score of a non-empty query of length n against an
\* empty reference returns -(open + (n-1)*extend).
C12_GlobalEmptyReference ==
    (call = "global_alignment_score" /\ reference = <<>>) =>
        ret = 0 - (open_cost + (Len(query) - 1) * gap_extend_cost)

C12_Witness ==
    /\ call = "global_alignment_score"
    /\ reference = <<>>
    /\ Len(query) = MaxLen
    /\ open_cost = 1
    /\ gap_extend_cost = MaxGap
    /\ ret = 0 - (1 + (MaxLen - 1) * MaxGap)

(***************************************************************************)
(* Sessions whose gap costs are not both >= 0.  The entry points take the  *)
(* two costs as i32 and hand them to the engine as they are.               *)
(***************************************************************************)
SignedGapCosts == (0 - MaxGap)..MaxGap

NegativeGapInputs ==
    LET seqs == SeqsUpTo(Nucleotides, MaxLen) \ {<<>>}
    IN  { Input(q, r, o, e, mt) :
              q \in seqs, r \in seqs,
              o \in SignedGapCosts, e \in SignedGapCosts, mt \in ParametricTypes }
        \ ParametricInputs

InitNegativeGap ==
    /\ \E in \in NegativeGapInputs :
          /\ query = in.query
          /\ reference = in.reference
          /\ open_cost = in.open_cost
          /\ gap_extend_cost = in.gap_extend_cost
          /\ matrix_type = in.matrix_type
    /\ internal_rep = Null
    /\ frees = 0
    /\ threads = NoCalls
    /\ heap = EmptyHeap
    /\ profile = NoProfile
    /\ call = "none"
    /\ ret = Null

SpecNegativeGap == InitNegativeGap /\ [][Next]_vars

\* C13: an entry point called with a negative gap-open or gap-extend cost
\* fails at the call boundary: it computes no alignment and returns no score.
C13_NegativeGapFailsFast ==
    (open_cost < 0 \/ gap_extend_cost < 0) => call = "none"

(***************************************************************************)
(* The life of a Matrix of any type: construction, use by alignment calls  *)
(* (each of them dereferences the Matrix it is handed), and drop.          *)
(***************************************************************************)
InitMatrix ==
    /\ matrix_type \in MatrixTypes
    /\ query = TestQuery6
    /\ reference = TestReference11
    /\ open_cost = 1
    /\ gap_extend_cost = 1
    /\ internal_rep = Null
    /\ frees = 0
    /\ threads = NoCalls
    /\ heap = EmptyHeap
    /\ profile = NoProfile
    /\ call = "none"
    /\ ret = Null

\* Deref for Matrix: an alignment call or Profile::new reads the table
\* through the reference it borrows, which the owner outlives
MatrixDeref ==
    /\ MatrixLive
    /\ call' = "deref"
    /\ UNCHANGED <<query, reference, open_cost, gap_extend_cost, matrix_type,
                   internal_rep, frees, threads, heap, profile, ret>>

NextMatrix == MatrixNew \/ MatrixDeref \/ MatrixDrop

SpecMatrix == InitMatrix /\ [][NextMatrix]_vars

\* C14: Matrix::new never yields a usable Matrix from an unknown name: every
\* variant other than Identity and IdentityWithPenalty is looked up under a
\* non-empty name of its own (no two variants share one, and the names are
\* exactly those of the catalogue), so the empty fallback name is never
\* used, and no constructed Matrix holds a null table or the table of
\* another variant.
C14_NamedMatrixResolved ==
    /\ \A mt \in NamedTypes : lookup_name(mt) # "" /\ lookup_name(mt) \in Catalogue
    /\ \A m1, m2 \in NamedTypes : lookup_name(m1) = lookup_name(m2) => m1 = m2
    /\ { lookup_name(mt) : mt \in NamedTypes } = Catalogue
    /\ lookup_name("Blosum62") = "blosum62" /\ lookup_name("Pam120") = "pam120"
    /\ internal_rep # NullPointer
    /\ (matrix_type \in NamedTypes /\ internal_rep # Null) =>
          /\ internal_rep \in {"lookup", "dropped"}
          /\ parasail_matrix_lookup(lookup_name(matrix_type)) = "lookup"
    /\ (matrix_type \in ParametricTypes /\ internal_rep # Null) =>
          internal_rep \in {"created", "freed"}

C14_Witness ==
    /\ matrix_type = "Pam500"
    /\ internal_rep = "lookup"
    /\ call = "deref"
    /\ lookup_name(matrix_type) = "pam500"

\* C15: over any sequence of Matrix::new, alignment calls and drops, the
\* storage of a Matrix built for Identity or IdentityWithPenalty is freed
\* exactly once, by its drop and not before, the storage of a named matrix
\* is never freed, and no alignment call uses a matrix whose storage was
\* freed or whose owner dropped it.
C15_MatrixStorageFreedOnce ==
    [][ /\ frees' <= 1
        /\ matrix_type \in NamedTypes => frees' = 0
        /\ matrix_type \in ParametricTypes =>
              frees' = (IF internal_rep' = "freed" THEN 1 ELSE 0)
        /\ (matrix_type \in ParametricTypes /\ internal_rep \in {"created"}
                /\ internal_rep' # internal_rep) => frees' = 1
        /\ internal_rep \in {"freed", "dropped"} => internal_rep' = internal_rep
        /\ call' # call => (frees = 0 /\ internal_rep \in {"created", "lookup"})
      ]_vars

C15_Witness ==
    /\ matrix_type = "IdentityWithPenalty"
    /\ internal_rep = "freed"
    /\ frees = 1
    /\ call = "deref"

(***************************************************************************)
(* The entry points step by step: the engine call that allocates the       *)
(* result object, the reads of it, the frees and the return, for several   *)
(* callers that share one Matrix and one Profile.                          *)
(***************************************************************************)
EntryPoints ==
    <<"global_alignment_score", "semi_global_alignment_score",
      "semi_global_qx_alignment_score", "local_alignment_score",
      "local_alignment_score_no_profile", "semi_global_alignment_stats",
      "semi_global_qx_alignment_stats", "local_alignment_stats",
      "semi_global_dx_traceback", "semi_global_traceback">>

\* the entry points that take a Profile in place of the query and the matrix
ProfileCalls ==
    {"global_alignment_score", "semi_global_alignment_score",
     "semi_global_qx_alignment_score", "local_alignment_score"}

\* the engine routine each entry point is bound to
EntryPolicy(name) ==
    CASE name = "global_alignment_score" -> NW
      [] name = "semi_global_alignment_score" -> SG
      [] name = "semi_global_qx_alignment_score" -> SG_QX
      [] name = "local_alignment_score" -> SW
      [] name = "local_alignment_score_no_profile" -> SW
      [] name = "semi_global_alignment_stats" -> SG
      [] name = "semi_global_qx_alignment_stats" -> SG_QX
      [] name = "local_alignment_stats" -> SW
      [] name = "semi_global_dx_traceback" -> SG_DX
      [] name = "semi_global_traceback" -> SG

\* the value an entry point returns when it runs alone
CallValue(name, db) ==
    CASE name = "global_alignment_score" ->
             global_alignment_score(profile, db, open_cost, gap_extend_cost)
      [] name = "semi_global_alignment_score" ->
             semi_global_alignment_score(profile, db, open_cost, gap_extend_cost)
      [] name = "semi_global_qx_alignment_score" ->
             semi_global_qx_alignment_score(profile, db, open_cost, gap_extend_cost)
      [] name = "local_alignment_score" ->
             local_alignment_score(profile, db, open_cost, gap_extend_cost)
      [] name = "local_alignment_score_no_profile" ->
             local_alignment_score_no_profile(query, db, open_cost, gap_extend_cost, matrix_type)
      [] name = "semi_global_alignment_stats" ->
             semi_global_alignment_stats(query, db, open_cost, gap_extend_cost, matrix_type)
      [] name = "semi_global_qx_alignment_stats" ->
             semi_global_qx_alignment_stats(query, db, open_cost, gap_extend_cost, matrix_type)
      [] name = "local_alignment_stats" ->
             local_alignment_stats(query, db, open_cost, gap_extend_cost, matrix_type)
      [] name = "semi_global_dx_traceback" ->
             semi_global_dx_traceback(query, db, open_cost, gap_extend_cost, matrix_type)
      [] name = "semi_global_traceback" ->
             semi_global_traceback(query, db, open_cost, gap_extend_cost, matrix_type)

Symbols(s) == { s[i] : i \in 1..Len(s) }

\* an object of the engine's heap: who allocated it, what it holds, who
\* freed it how often, who read it, and the reads made after a free
NewObject(kind, t, content) ==
    [kind |-> kind, owner |-> t, content |-> content, frees |-> 0,
     freed_by |-> {}, readers |-> {}, stale_reads |-> 0]

\* addresses are interchangeable: the allocator hands each caller the
\* address kept for its object of that kind
AddressFor(t, kind) == IF kind = "result" THEN 2 * t - 1 ELSE 2 * t

Allocate(h, t, kind, content) ==
    [h EXCEPT ![AddressFor(t, kind)] = NewObject(kind, t, content)]

ReadObject(h, ptr, t) ==
    [h EXCEPT ![ptr].readers = @ \cup {t},
              ![ptr].stale_reads =
                  @ + (IF h[ptr].kind = "none" \/ h[ptr].frees > 0 THEN 1 ELSE 0)]

FreeObject(h, ptr, t) ==
    [h EXCEPT ![ptr].frees = @ + 1, ![ptr].freed_by = @ \cup {t}]

SharedUnchanged ==
    UNCHANGED <<query, reference, open_cost, gap_extend_cost, matrix_type,
                internal_rep, frees, profile, call, ret>>

\* the engine call at the head of every entry point: it borrows the Matrix
\* or the Profile and hands back a freshly allocated result object
EngineCall(t) ==
    LET th   == threads[t]
        name == th.entry
        res  == IF name \in ProfileCalls
                THEN parasail_profile(profile, th.reference, open_cost,
                                      gap_extend_cost, EntryPolicy(name))
                ELSE EngineResult(query, th.reference, open_cost, gap_extend_cost,
                                  matrix_type, EntryPolicy(name))
    IN  /\ th.pc = "ready"
        /\ MatrixLive
        /\ name \in ProfileCalls => profile # NoProfile
        /\ heap' = Allocate(heap, t, "result", res)
        /\ threads' = [threads EXCEPT ![t].pc = "called",
                                       ![t].result = AddressFor(t, "result")]
        /\ SharedUnchanged

\* the reads of the result object: the score, the counts and the end
\* coordinates, copied into locals of the call
ReadResult(t) ==
    LET th     == threads[t]
        result == heap[th.result].content
    IN  /\ th.pc = "called"
        /\ heap' = ReadObject(heap, th.result, t)
        /\ threads' = [threads EXCEPT
              ![t].pc = "read",
              ![t].locals =
                  IF th.entry \in ScoreCalls THEN result.score
                  ELSE IF th.entry \in StatsCalls THEN AlignmentStats(result)
                  ELSE [score     |-> parasail_result_get_score(result),
                        query_end |-> EndPlusOne(result.end_query),
                        ref_end   |-> EndPlusOne(result.end_ref)]]
        /\ SharedUnchanged

\* CString::new(..).unwrap() fails on a sequence that holds a zero byte
HoldsNul(t) == NulByte \in Symbols(query) \cup Symbols(threads[t].reference)

\* the traceback entry points copy both sequences into C strings
MakeCStrings(t) ==
    /\ threads[t].pc = "read"
    /\ threads[t].entry \in TracebackCalls
    /\ ~HoldsNul(t)
    /\ threads' = [threads EXCEPT ![t].pc = "cstrings"]
    /\ UNCHANGED heap
    /\ SharedUnchanged

\* the unwrap panics and the call is left by unwinding
CStringPanics(t) ==
    /\ threads[t].pc = "read"
    /\ threads[t].entry \in TracebackCalls
    /\ HoldsNul(t)
    /\ threads' = [threads EXCEPT ![t].pc = "panicked"]
    /\ UNCHANGED heap
    /\ SharedUnchanged

\* parasail_result_get_traceback reads the result object and allocates the
\* traceback object
GetTraceback(t) ==
    LET th == threads[t]
        tb == parasail_result_get_traceback(heap[th.result].content, query,
                  th.reference, matrix_type, match_char, positive_mismatch_char,
                  negative_mismatch_char)
    IN  /\ th.pc = "cstrings"
        /\ heap' = Allocate(ReadObject(heap, th.result, t), t, "traceback", tb)
        /\ threads' = [threads EXCEPT ![t].pc = "traced",
                                       ![t].traceback = AddressFor(t, "traceback")]
        /\ SharedUnchanged

\* CStr::to_str().unwrap() fails on a row that is not UTF-8
NotUtf8(tb) == HighByte \in Symbols(tb.query) \cup Symbols(tb.comp) \cup Symbols(tb.ref_)

\* the three rows are copied into Strings owned by the caller
CopyTrace(t) ==
    LET th == threads[t]
        tb == heap[th.traceback].content
    IN  /\ th.pc = "traced"
        /\ ~NotUtf8(tb)
        /\ heap' = ReadObject(heap, th.traceback, t)
        /\ threads' = [threads EXCEPT
              ![t].pc = "copied",
              ![t].locals = [score       |-> th.locals.score,
                             query_end   |-> th.locals.query_end,
                             ref_end     |-> th.locals.ref_end,
                             query_trace |-> tb.query,
                             comp_trace  |-> tb.comp,
                             ref_trace   |-> tb.ref_]]
        /\ SharedUnchanged

ToStrPanics(t) ==
    LET th == threads[t]
    IN  /\ th.pc = "traced"
        /\ NotUtf8(heap[th.traceback].content)
        /\ heap' = ReadObject(heap, th.traceback, t)
        /\ threads' = [threads EXCEPT ![t].pc = "panicked"]
        /\ SharedUnchanged

\* parasail_traceback_free(traceback)
FreeTraceback(t) ==
    /\ threads[t].pc = "copied"
    /\ heap' = FreeObject(heap, threads[t].traceback, t)
    /\ threads' = [threads EXCEPT ![t].pc = "traceback_freed"]
    /\ SharedUnchanged

\* variant: the free is handed the first result object of the heap
FirstResult(t) == 1

\* the pointer handed to parasail_result_free: the call's own result
FreedResult(t) == threads[t].result

\* parasail_result_free(result): after the reads of a score or stats entry
\* point, after the free of the traceback in a traceback entry point
FreeResult(t) ==
    /\ \/ threads[t].pc = "read" /\ threads[t].entry \notin TracebackCalls
       \/ threads[t].pc = "traceback_freed"
    /\ heap' = FreeObject(heap, FreedResult(t), t)
    /\ threads' = [threads EXCEPT ![t].pc = "result_freed"]
    /\ SharedUnchanged

\* the value handed back is built from the locals of the call
CallReturns(t) ==
    /\ threads[t].pc = "result_freed"
    /\ threads' = [threads EXCEPT ![t].pc = "returned", ![t].value = threads[t].locals]
    /\ UNCHANGED heap
    /\ SharedUnchanged

\* the callers start once the Matrix and the Profile they share are built;
\* what they share, and the references they bring
SharedInputs ==
    {Input(<<"A", "C">>, <<>>, 1, 1, "IdentityWithPenalty"),
     Input(<<"S", NulByte>>, <<>>, MaxGap, MaxGap, "Blosum62")}

CallerReferences == << <<"C", "A", "C">>, <<"A", HighByte>> >>

\* what a caller is about to do: an entry point and a reference
Choices == (1..Len(EntryPoints)) \X (1..Len(CallerReferences))

ChoiceRank(c) == (c[1] - 1) * Len(CallerReferences) + c[2]

\* the callers are interchangeable, so their choices are drawn in order
InitCalls ==
    /\ \E in \in SharedInputs :
          /\ query = in.query
          /\ reference = in.reference
          /\ open_cost = in.open_cost
          /\ gap_extend_cost = in.gap_extend_cost
          /\ matrix_type = in.matrix_type
    /\ internal_rep = (IF matrix_type \in ParametricTypes
                          THEN "created"
                          ELSE parasail_matrix_lookup(lookup_name(matrix_type)))
    /\ frees = 0
    /\ \E ch \in [Threads -> Choices] :
          /\ \A t \in Threads \ {MaxThreads} : ChoiceRank(ch[t]) <= ChoiceRank(ch[t + 1])
          /\ threads = [t \in Threads |->
                 [IdleThread EXCEPT !.pc = "ready",
                                    !.entry = EntryPoints[ch[t][1]],
                                    !.reference = CallerReferences[ch[t][2]]]]
    /\ heap = EmptyHeap
    /\ profile = ProfileNew(query, matrix_type)
    /\ call = "none"
    /\ ret = Null

NextCalls ==
    \/ \E t \in Threads : EngineCall(t)
    \/ \E t \in Threads : ReadResult(t)
    \/ \E t \in Threads : MakeCStrings(t)
    \/ \E t \in Threads : CStringPanics(t)
    \/ \E t \in Threads : GetTraceback(t)
    \/ \E t \in Threads : CopyTrace(t)
    \/ \E t \in Threads : ToStrPanics(t)
    \/ \E t \in Threads : FreeTraceback(t)
    \/ \E t \in Threads : FreeResult(t)
    \/ \E t \in Threads : CallReturns(t)
    \/ MatrixDrop

SpecCalls == InitCalls /\ [][NextCalls]_vars

\* the objects of the heap a caller allocated
ObjectsOf(t, kind) == { i \in Addresses : heap[i].owner = t /\ heap[i].kind = kind }

\* control has left the call, by a return or by unwinding
LeftCall(th) == th.pc \in {"returned", "panicked"}

\* C16: every entry point frees its result object exactly once, and each
\* traceback entry point its traceback object exactly once, after the last
\* read of the object and before control leaves the call, on every path out
\* of the call.
C16_ResultFreedOnEveryPath ==
    \A t \in Threads :
       /\ \A i \in ObjectsOf(t, "result") \cup ObjectsOf(t, "traceback") :
             /\ heap[i].frees <= 1
             /\ heap[i].stale_reads = 0
             /\ LeftCall(threads[t]) => heap[i].frees = 1
       /\ LeftCall(threads[t]) => Cardinality(ObjectsOf(t, "result")) = 1
       /\ (threads[t].pc = "returned" /\ threads[t].entry \in TracebackCalls) =>
             Cardinality(ObjectsOf(t, "traceback")) = 1

\* the call of caller t returns in this step
Returning(t) == threads[t].pc # "returned" /\ threads'[t].pc = "returned"

\* C17: while several calls run side by side against one Matrix and one
\* Profile, no step changes the Matrix or the Profile as long as a call is
\* in flight, every object of the heap is read and freed by the call that
\* allocated it and by no other, and under every interleaving a call
\* returns the value it returns when it runs alone.
C17_ConcurrentCallsIndependent ==
    [][ /\ (\E t \in Threads : InCall(threads[t])) =>
              UNCHANGED <<query, matrix_type, internal_rep, frees, profile>>
        /\ \A a \in Addresses :
              /\ heap'[a].freed_by \subseteq {heap'[a].owner}
              /\ heap'[a].readers \subseteq {heap'[a].owner}
              /\ heap'[a].kind = "none" => (heap'[a].frees = 0 /\ heap'[a].readers = {})
        /\ \A t \in Threads :
              Returning(t) =>
                 threads'[t].value = CallValue(threads[t].entry, threads[t].reference)
      ]_vars

C17_Witness ==
    /\ threads[1].pc = "returned"
    /\ threads[1].entry = "local_alignment_score_no_profile"
    /\ threads[MaxThreads].pc = "returned"
    /\ threads[MaxThreads].entry = "semi_global_traceback"
    /\ threads[1].reference = <<"C", "A", "C">>
    /\ threads[1].value = 2
    /\ threads[MaxThreads].reference = <<"C", "A", "C">>
    /\ threads[MaxThreads].value.comp_trace = <<"|", "|">>
    /\ heap[threads[1].result].freed_by = {1}
    /\ heap[threads[MaxThreads].result].freed_by = {MaxThreads}
    /\ heap[threads[MaxThreads].traceback].freed_by = {MaxThreads}

NextStats ==
    \/ MatrixNew
    \/ CallSemiGlobalAlignmentStats
    \/ CallSemiGlobalQxAlignmentStats
    \/ CallLocalAlignmentStats
    \/ MatrixDrop

SpecStats == Init /\ [][NextStats]_vars

\* C20: in every AlignmentStats result num_matches <= align_length and
\* num_positive_subs <= align_length, where align_length is the number of
\* columns of the engine's alignment, gap columns included (at most the two
\* lengths together); an exact match counts as a positive substitution, and
\* under the Identity matrix num_positive_subs equals num_matches.
C20_StatsCounts ==
    call \in StatsCalls =>
       /\ ret.num_matches <= ret.align_length
       /\ ret.num_positive_subs <= ret.align_length
       /\ ret.num_matches <= ret.num_positive_subs
       /\ ret.align_length <= Len(query) + Len(reference)
       /\ ret.align_length =
             Len(EngineResult(query, reference, open_cost, gap_extend_cost, matrix_type,
                              EntryPolicy(call)).trace)
       /\ matrix_type = "Identity" => ret.num_positive_subs = ret.num_matches

C20_Witness ==
    /\ call = "semi_global_qx_alignment_stats"
    /\ matrix_type = "Identity"
    /\ ret.num_matches = 1
    /\ ret.num_positive_subs = 1
    /\ ret.align_length = MaxLen

(***************************************************************************)
(* Sessions whose gap costs reach the largest value their type holds.      *)
(***************************************************************************)
CIntMax == 2^(CIntBits - 1) - 1

\* the bits of the i64 that AlignmentStats.score and TracebackResults.score
\* are declared with
I64Bits == 2 * CIntBits

Fits(x, bits) == 0 - 2^(bits - 1) <= x /\ x <= 2^(bits - 1) - 1

WidthInputs ==
    LET seqs == SeqsUpTo(Nucleotides, 3) \ {<<>>}
    IN  { Input(q, r, o, e, mt) :
              q \in seqs, r \in seqs, o \in {1, CIntMax}, e \in {1, CIntMax},
              mt \in ParametricTypes }

InitWidth ==
    /\ \E in \in WidthInputs :
          /\ query = in.query
          /\ reference = in.reference
          /\ open_cost = in.open_cost
          /\ gap_extend_cost = in.gap_extend_cost
          /\ matrix_type = in.matrix_type
    /\ internal_rep = Null
    /\ frees = 0
    /\ threads = NoCalls
    /\ heap = EmptyHeap
    /\ profile = NoProfile
    /\ call = "none"
    /\ ret = Null

SpecWidth == InitWidth /\ [][Next]_vars

\* the score of the call's optimal alignment in exact arithmetic
TrueScore ==
    OptimalAlignment(query, reference, open_cost, gap_extend_cost, matrix_type,
                     EntryPolicy(call)).score

\* C18: the score an entry point reports is accumulated at least as wide as
\* its reported type (i32 for the score-only entry points, i64 for the
\* stats and traceback entry points): whenever the true score fits the
\* reported type, the reported score is the true score and no wrapped value.
C18_NoWraparound ==
    call # "none" =>
       (Fits(TrueScore, IF call \in ScoreCalls THEN CIntBits ELSE I64Bits) =>
           ReturnedScore = TrueScore)

====
